---- MODULE Spec2Model ----
(***************************************************************************)
(* Model of src/maintenance.py: the birth-death stationary distribution    *)
(* solver, the availability evaluator and the exhaustive cost optimizer of *)
(* a k-out-of-n repairable system.                                         *)
(*                                                                         *)
(* Floating point numbers are modelled as exact extended rationals: a pair *)
(* <<num, den>> in lowest terms with den > 0, or one of the three IEEE     *)
(* special values <<1,0>> (inf), <<-1,0>> (-inf), <<0,0>> (nan).  Python's *)
(* None is the empty tuple <<>>, an int n that may be None is <<n>>.       *)
(***************************************************************************)
EXTENDS Integers, Sequences, FiniteSets, TLC

(* ----------------------------- bounds ---------------------------------- *)
MaxN == 3
MaxK == 2
MaxRate == 2

(* --------------------- default costs of main() ------------------------- *)
DefaultComponentCost == 5
DefaultRepairmanCost == 10
DefaultDowntimeCost == 1000

(* ------------------------ float arithmetic ----------------------------- *)
Abs(x) == IF x < 0 THEN -x ELSE x

Sgn(x) == IF x < 0 THEN -1 ELSE IF x > 0 THEN 1 ELSE 0

RECURSIVE GCD(_, _)
GCD(a, b) == IF b = 0 THEN a ELSE GCD(b, a % b)

Rat(num, den) ==
    LET g == GCD(Abs(num), Abs(den))
        s == IF den < 0 THEN -1 ELSE 1
    IN  <<(s * num) \div g, (s * den) \div g>>

Float(i) == <<i, 1>>

None == <<>>

Zero == <<0, 1>>

One == <<1, 1>>

inf == <<1, 0>>

NaN == <<0, 0>>

IsNaN(x) == x = NaN

IsInf(x) == x[2] = 0 /\ x[1] # 0

IsFinite(x) == x[2] # 0

Add(a, b) ==
    IF IsNaN(a) \/ IsNaN(b) THEN NaN
    ELSE IF IsInf(a) THEN (IF IsInf(b) /\ b # a THEN NaN ELSE a)
    ELSE IF IsInf(b) THEN b
    ELSE Rat(a[1] * b[2] + b[1] * a[2], a[2] * b[2])

Neg(a) == <<-a[1], a[2]>>

Sub(a, b) == Add(a, Neg(b))

Mul(a, b) ==
    IF IsNaN(a) \/ IsNaN(b) THEN NaN
    ELSE IF IsInf(a) \/ IsInf(b)
         THEN (IF a[1] = 0 \/ b[1] = 0 THEN NaN ELSE <<Sgn(a[1]) * Sgn(b[1]), 0>>)
    ELSE Rat(a[1] * b[1], a[2] * b[2])

Div(a, b) ==
    IF IsNaN(a) \/ IsNaN(b) THEN NaN
    ELSE IF IsInf(a)
         THEN (IF IsInf(b) THEN NaN ELSE <<Sgn(a[1]) * (IF b[1] < 0 THEN -1 ELSE 1), 0>>)
    ELSE IF IsInf(b) THEN Zero
    ELSE IF b[1] = 0 THEN <<Sgn(a[1]), 0>>
    ELSE Rat(a[1] * b[2], a[2] * b[1])

(* exact a1/a2 < b1/b2 for a2, b2 > 0, by integer parts and then the      *)
(* reciprocals of the fractional parts, so that no product is formed       *)
RECURSIVE FracLt(_, _, _, _)
FracLt(a1, a2, b1, b2) ==
    LET qa == a1 \div a2
        qb == b1 \div b2
        ra == a1 - qa * a2
        rb == b1 - qb * b2
    IN  IF qa # qb THEN qa < qb
        ELSE IF rb = 0 THEN FALSE
        ELSE IF ra = 0 THEN TRUE
        ELSE FracLt(b2, rb, a2, ra)

Lt(a, b) ==
    IF IsNaN(a) \/ IsNaN(b) THEN FALSE
    ELSE IF a = b THEN FALSE
    ELSE IF IsInf(a) THEN a[1] < 0
    ELSE IF IsInf(b) THEN b[1] > 0
    ELSE FracLt(a[1], a[2], b[1], b[2])

Le(a, b) == Lt(a, b) \/ (a = b /\ ~IsNaN(a))

Min(a, b) == IF b < a THEN b ELSE a

(* np.sum over the first cnt entries of a 0-indexed vector *)
RECURSIVE np_sum(_, _)
np_sum(v, cnt) == IF cnt <= 0 THEN Zero ELSE Add(np_sum(v, cnt - 1), v[cnt - 1])

(* ------------------ birth_death_stationary_distribution ---------------- *)
(* mutant: repair stops once more components are down than there are crews *)
birth_rate_overloaded(gamma, k, i) == Mul(Float(IF i <= k THEN i ELSE 0), gamma)

birth_rate(gamma, k, i) == Mul(Float(Min(i, k)), gamma)

(* mutant: the standby flag is read inverted *)
death_rate_inverted(mu, warm_standby, n, m, i) ==
    LET working == n - i
    IN  IF ~warm_standby THEN Mul(Float(working), mu)
        ELSE IF working >= m THEN Mul(Float(m), mu)
        ELSE Zero

death_rate(mu, warm_standby, n, m, i) ==
    LET working == n - i
    IN  IF warm_standby THEN Mul(Float(working), mu)
        ELSE IF working >= m THEN Mul(Float(m), mu)
        ELSE Zero

birth_rates(gamma, n, k) == [i \in 0..n |-> birth_rate(gamma, k, i)]

death_rates(mu, warm_standby, n, m) == [i \in 0..n |-> death_rate(mu, warm_standby, n, m, i)]

(* mutant: the guard of line 29 written >= 0 *)
takes_division_nonnegative(b) == ~Lt(b, Zero)

takes_division(b) == Lt(Zero, b)

(* lines 26-32: the vector pi after the loop has run up to index i *)
RECURSIVE pi_upto(_, _, _)
pi_upto(birth, death, i) ==
    IF i = 0 THEN (0 :> One)
    ELSE LET prev == pi_upto(birth, death, i - 1)
         IN  prev @@ (i :> IF takes_division(birth[i])
                           THEN Div(Mul(prev[i - 1], death[i - 1]), birth[i])
                           ELSE Zero)

unnormalized_pi(birth, death, n) == pi_upto(birth, death, n)

(* mutant: line 35 left out *)
normalize_skipped(pi, pi_sum) == pi

normalize(pi, pi_sum) == [i \in DOMAIN pi |-> Div(pi[i], pi_sum)]

(* Exception raised while allocating or initialising the vectors:          *)
(* np.zeros(states) with states < 0, or pi[0] = 1.0 on an empty vector.    *)
raises(n) ==
    LET states == n + 1
    IN  IF states < 0 THEN "ValueError"
        ELSE IF states = 0 THEN "IndexError"
        ELSE "no"

(* lines 26-35: the sum of line 34 and the vector returned at line 36 *)
solve(mu, gamma, warm_standby, n, m, k) ==
    LET birth == birth_rates(gamma, n, k)
        death == death_rates(mu, warm_standby, n, m)
        pi == unnormalized_pi(birth, death, n)
        pi_sum == np_sum(pi, n + 1)
    IN  [pi_sum |-> pi_sum, pi |-> normalize(pi, pi_sum)]

birth_death_stationary_distribution(mu, gamma, warm_standby, n, m, k) ==
    solve(mu, gamma, warm_standby, n, m, k).pi

(* number of times line 30 (the division of the recurrence) is executed *)
divisions(gamma, n, k) ==
    Cardinality({i \in 1..n : takes_division(birth_rate(gamma, k, i))})

(* --------------------------- system_availability ----------------------- *)
(* mutant: off by one in line 42 *)
max_failed_allowed_short(n, m) == n - m - 1

max_failed_allowed(n, m) == n - m

(* number of entries of the Python slice v[:stop] of a vector of length len *)
slice_len(len, stop) ==
    IF stop < 0 THEN (IF len + stop < 0 THEN 0 ELSE len + stop)
    ELSE Min(stop, len)

operational_mass(pi, n, m) == np_sum(pi, slice_len(n + 1, max_failed_allowed(n, m) + 1))

system_availability(mu, gamma, warm_standby, n, m, k) ==
    operational_mass(birth_death_stationary_distribution(mu, gamma, warm_standby, n, m, k), n, m)

(* The observable record of one call of system_availability *)
evaluation(mu, gamma, warm_standby, n, m, k) ==
    IF raises(n) # "no"
    THEN [mu |-> mu, gamma |-> gamma, warm_standby |-> warm_standby,
          n |-> n, m |-> m, k |-> k, raised |-> raises(n),
          divisions |-> 0, pi_sum |-> None, pi |-> <<>>, availability |-> None]
    ELSE LET solved == solve(mu, gamma, warm_standby, n, m, k)
         IN  [mu |-> mu, gamma |-> gamma, warm_standby |-> warm_standby,
              n |-> n, m |-> m, k |-> k, raised |-> "no",
              divisions |-> divisions(gamma, n, k),
              pi_sum |-> solved.pi_sum,
              pi |-> solved.pi,
              availability |-> operational_mass(solved.pi, n, m)]

(* ------------------- optimize_components_and_repairmen ----------------- *)
total_cost(component_cost, repairman_cost, downtime_cost, n, k, availability) ==
    Add(Add(Mul(component_cost, Float(n)), Mul(repairman_cost, Float(k))),
        Mul(downtime_cost, Sub(One, availability)))

(* mutant: line 59 written <= *)
improves_or_ties(cost, current_min) == Le(cost, current_min)

(* mutant: line 59 written > *)
improves_reversed(cost, current_min) == Lt(current_min, cost)

improves(cost, current_min) == Lt(cost, current_min)

(* Python range(lo, hi) as a sequence *)
range(lo, hi) == [i \in 1..(IF hi > lo THEN hi - lo ELSE 0) |-> lo + i - 1]

(* ------------------------------ inputs --------------------------------- *)
Rates == {Rat(a, 2) : a \in 0..MaxRate}

AnyRates == Rates \cup {Neg(r) : r \in Rates}

ValidParams(mu, gamma, n, m, k) ==
    /\ ~Lt(mu, Zero) /\ ~Lt(gamma, Zero)
    /\ n >= 1 /\ 1 <= m /\ m <= n /\ k >= 1

Costs(default) == {Zero, Float(default)}

NRanges == {range(lo, hi) : lo \in 1..MaxN, hi \in 1..(MaxN + 1)}

KRanges == {range(1, hi) : hi \in 1..(MaxK + 1)}

NotCalled ==
    [mu |-> Zero, gamma |-> Zero, warm_standby |-> FALSE, n |-> 0, m |-> 0, k |-> 0,
     raised |-> "not called", divisions |-> 0, pi_sum |-> None, pi |-> <<>>,
     availability |-> None]

NoArgs ==
    [mu |-> Zero, gamma |-> Zero, warm_standby |-> FALSE, m |-> 0,
     component_cost |-> Zero, repairman_cost |-> Zero, downtime_cost |-> Zero,
     n_range |-> <<>>, k_range |-> <<>>]

(* ------------------------------ state ---------------------------------- *)
VARIABLES pc, args, call, ni, ki, best_n, best_k, min_cost, ret

vars == <<pc, args, call, ni, ki, best_n, best_k, min_cost, ret>>

Init ==
    /\ pc = "idle"
    /\ args = NoArgs
    /\ call = NotCalled
    /\ ni = 0
    /\ ki = 0
    /\ best_n = None
    /\ best_k = None
    /\ min_cost = None
    /\ ret = None

(* A direct call of system_availability, as main() makes at line 83 *)
availability_call(mu, gamma, warm_standby, n, m, k) ==
    /\ pc = "idle"
    /\ pc' = "called"
    /\ call' = evaluation(mu, gamma, warm_standby, n, m, k)
    /\ UNCHANGED <<args, ni, ki, best_n, best_k, min_cost, ret>>

(* Entry of optimize_components_and_repairmen: lines 48-49 *)
optimize_call(a) ==
    /\ pc = "idle"
    /\ pc' = "loop"
    /\ args' = a
    /\ ni' = 1
    /\ ki' = 1
    /\ best_n' = None
    /\ best_k' = None
    /\ min_cost' = inf
    /\ UNCHANGED <<call, ret>>

InLoop == pc = "loop" /\ ni <= Len(args.n_range) /\ Len(args.k_range) > 0

cur_n == args.n_range[ni]

cur_k == args.k_range[ki]

advance ==
    IF ki < Len(args.k_range)
    THEN ni' = ni /\ ki' = ki + 1
    ELSE ni' = ni + 1 /\ ki' = 1

cur_evaluation ==
    evaluation(args.mu, args.gamma, args.warm_standby, cur_n, args.m, cur_k)

cost_of(availability) ==
    total_cost(args.component_cost, args.repairman_cost, args.downtime_cost,
               cur_n, cur_k, availability)

(* lines 53-54: infeasible pair, continue *)
loop_continue ==
    /\ InLoop
    /\ args.m > cur_n
    /\ advance
    /\ UNCHANGED <<pc, args, call, best_n, best_k, min_cost, ret>>

(* lines 56-62 with the comparison of line 59 true *)
loop_update ==
    /\ InLoop
    /\ ~(args.m > cur_n)
    /\ call' = cur_evaluation
    /\ improves(cost_of(call'.availability), min_cost)
    /\ min_cost' = cost_of(call'.availability)
    /\ best_n' = <<cur_n>>
    /\ best_k' = <<cur_k>>
    /\ advance
    /\ UNCHANGED <<pc, args, ret>>

(* lines 56-59 with the comparison of line 59 false *)
loop_keep ==
    /\ InLoop
    /\ ~(args.m > cur_n)
    /\ call' = cur_evaluation
    /\ ~improves(cost_of(call'.availability), min_cost)
    /\ advance
    /\ UNCHANGED <<pc, args, best_n, best_k, min_cost, ret>>

(* line 64 *)
optimize_return ==
    /\ pc = "loop"
    /\ ~InLoop
    /\ pc' = "returned"
    /\ ret' = <<best_n, best_k, min_cost>>
    /\ UNCHANGED <<args, call, ni, ki, best_n, best_k, min_cost>>

(* component and repairman cost: both free, or both at main()'s defaults *)
HardwareCosts ==
    {<<Zero, Zero>>, <<Float(DefaultComponentCost), Float(DefaultRepairmanCost)>>}

OptimizerArgs ==
    {[mu |-> mu, gamma |-> gamma, warm_standby |-> warm_standby, m |-> m,
      component_cost |-> h[1], repairman_cost |-> h[2], downtime_cost |-> d,
      n_range |-> n_range, k_range |-> k_range] :
        mu \in Rates, gamma \in Rates, warm_standby \in BOOLEAN, m \in 1..MaxN,
        h \in HardwareCosts, d \in Costs(DefaultDowntimeCost),
        n_range \in NRanges, k_range \in KRanges}

Optimize ==
    \/ pc = "idle" /\ \E a \in OptimizerArgs : optimize_call(a)
    \/ loop_continue
    \/ loop_update
    \/ loop_keep
    \/ optimize_return

ValidCall ==
    /\ pc = "idle"
    /\ \E mu \in Rates, gamma \in Rates, warm_standby \in BOOLEAN,
          n \in 1..MaxN, k \in 1..MaxK :
        \E m \in 1..n : availability_call(mu, gamma, warm_standby, n, m, k)

AnyCall ==
    /\ pc = "idle"
    /\ \E mu \in AnyRates, gamma \in AnyRates, warm_standby \in BOOLEAN,
          n \in (-2)..MaxN, m \in 0..(MaxN + 1), k \in 0..MaxK :
        availability_call(mu, gamma, warm_standby, n, m, k)

Next == ValidCall \/ Optimize

Spec == Init /\ [][Next]_vars

NextAny == AnyCall \/ Optimize

SpecAny == Init /\ [][NextAny]_vars

(* ===================== properties of the optimizer ===================== *)
Pairs == {p \in (1..Len(args.n_range)) \X (1..Len(args.k_range)) : TRUE}

FeasiblePairs == {p \in Pairs : args.m <= args.n_range[p[1]]}

PairCost(p) ==
    total_cost(args.component_cost, args.repairman_cost, args.downtime_cost,
               args.n_range[p[1]], args.k_range[p[2]],
               system_availability(args.mu, args.gamma, args.warm_standby,
                                   args.n_range[p[1]], args.m, args.k_range[p[2]]))

(* the pairs whose values are the returned best_n, best_k *)
ReturnedPairs ==
    {p \in Pairs : <<args.n_range[p[1]]>> = ret[1] /\ <<args.k_range[p[2]]>> = ret[2]}

VisitedBefore(p, q) == p[1] < q[1] \/ (p[1] = q[1] /\ p[2] < q[2])

(* C1: when the grid holds a feasible pair, the returned best_n is in      *)
(* n_range and at least m, best_k is in k_range, min_cost is the cost of   *)
(* the returned pair and is at most the cost of every feasible pair.       *)
C1_ReturnsCheapestFeasible ==
    (pc = "returned" /\ FeasiblePairs # {}) =>
        /\ ReturnedPairs # {}
        /\ \A p \in ReturnedPairs :
              /\ p \in FeasiblePairs
              /\ ret[3] = PairCost(p)
        /\ \A q \in FeasiblePairs : Le(ret[3], PairCost(q))

C1_Witness ==
    /\ pc = "returned"
    /\ \E p \in ReturnedPairs : \E q \in FeasiblePairs :
          VisitedBefore(q, p) /\ Lt(PairCost(p), PairCost(q))
    /\ \E q \in Pairs : q \notin FeasiblePairs

(* C2: among the feasible pairs that attain the minimum cost, the one      *)
(* returned is the one visited first: no feasible pair of the same cost    *)
(* precedes it in the iteration order.                                     *)
C2_FirstOnTie ==
    pc = "returned" =>
        \A p \in ReturnedPairs : \A q \in FeasiblePairs :
            PairCost(q) = ret[3] => ~VisitedBefore(q, p)

C2_Witness ==
    /\ pc = "returned"
    /\ \E p \in ReturnedPairs : \E q \in FeasiblePairs :
          /\ VisitedBefore(p, q)
          /\ PairCost(q) = ret[3]
    /\ args.downtime_cost # Zero
    /\ args.mu # Zero
    /\ args.gamma # Zero

(* C3: with no feasible pair in the grid, all three returned fields are    *)
(* the "none" indication.                                                  *)
C3_NoFeasibleIsNone ==
    (pc = "returned" /\ FeasiblePairs = {}) => ret = <<None, None, None>>

(* ================== properties of system_availability ================== *)
RECURSIVE SumOver(_, _)
SumOver(v, S) ==
    IF S = {} THEN Zero
    ELSE LET x == CHOOSE y \in S : TRUE IN Add(v[x], SumOver(v, S \ {x}))

Returned == call.raised = "no"

(* C4: for valid parameters the stationary distribution has exactly n+1    *)
(* entries, each non-negative, and they sum to 1.                          *)
C4_DistributionIsNormalized ==
    Returned =>
        /\ DOMAIN call.pi = 0..call.n
        /\ \A i \in 0..call.n : IsFinite(call.pi[i]) /\ ~Lt(call.pi[i], Zero)
        /\ SumOver(call.pi, 0..call.n) = One

C4_Witness ==
    /\ Returned
    /\ call.n >= 2
    /\ \A i \in 0..call.n : Lt(Zero, call.pi[i])
    /\ call.pi_sum # One

(* C5: for valid parameters the availability is the sum of pi[i] over the  *)
(* operational states 0 <= i <= n - m, and lies in [0, 1].                 *)
C5_AvailabilityIsOperationalMass ==
    Returned =>
        /\ call.availability = SumOver(call.pi, 0..(call.n - call.m))
        /\ Le(Zero, call.availability)
        /\ Le(call.availability, One)

C5_Witness ==
    /\ Returned
    /\ call.m < call.n
    /\ call.m > 1
    /\ Lt(Zero, call.availability)
    /\ Lt(call.availability, One)

(* C6: a call whose parameters violate the constraints does not return a   *)
(* value: it is rejected with an error.                                    *)
C6_InvalidIsRejected ==
    (pc = "called" /\ ~ValidParams(call.mu, call.gamma, call.n, call.m, call.k)) =>
        call.raised # "no"

(* C7: when the sum of the unnormalized vector is zero the solver signals  *)
(* DegenerateModel instead of returning a vector.                          *)
C7_ZeroSumIsSignalled ==
    (pc = "called" /\ call.pi_sum = Zero) => call.raised = "DegenerateModel"

(* C8: with repair rate 0 the distribution is pi[0] = 1 and 0 elsewhere,   *)
(* no division of the recurrence is performed, and the availability is 1.  *)
C8_NoRepairCollapses ==
    (Returned /\ call.gamma = Zero) =>
        /\ call.pi = [i \in 0..call.n |-> IF i = 0 THEN One ELSE Zero]
        /\ call.divisions = 0
        /\ call.availability = One

C8_Witness ==
    /\ Returned
    /\ call.gamma = Zero
    /\ call.mu # Zero
    /\ call.n >= 2
    /\ call.m < call.n

ColdAvailability ==
    system_availability(call.mu, call.gamma, FALSE, call.n, call.m, call.k)

WarmAvailability ==
    system_availability(call.mu, call.gamma, TRUE, call.n, call.m, call.k)

ModeAgrees ==
    call.availability = (IF call.warm_standby THEN WarmAvailability ELSE ColdAvailability)

(* C9 as stated: cold-standby availability is at least warm-standby        *)
(* availability when n > m, and the two are equal when n = m.              *)
C9_ColdGeWarmEqualWhenNEqualsM ==
    Returned =>
        /\ ModeAgrees
        /\ (call.n > call.m => Le(WarmAvailability, ColdAvailability))
        /\ (call.n = call.m => ColdAvailability = WarmAvailability)

(* C9 as amended: cold-standby availability is at least warm-standby       *)
(* availability whenever n >= m, and the two are equal when n = m = 1.     *)
C9_ColdGeWarm ==
    Returned =>
        /\ ModeAgrees
        /\ Le(WarmAvailability, ColdAvailability)
        /\ ((call.n = 1 /\ call.m = 1) => ColdAvailability = WarmAvailability)

C9_Witness ==
    /\ Returned
    /\ call.n > call.m
    /\ Lt(WarmAvailability, ColdAvailability)

(* C10: availability with k + 1 repair units is at least the availability  *)
(* with k repair units.                                                    *)
C10_MonotoneInCrewSize ==
    Returned =>
        Le(call.availability,
           system_availability(call.mu, call.gamma, call.warm_standby,
                               call.n, call.m, call.k + 1))

C10_Witness ==
    /\ Returned
    /\ Lt(call.availability,
          system_availability(call.mu, call.gamma, call.warm_standby,
                              call.n, call.m, call.k + 1))
    /\ call.k >= 2

====
